---- MODULE Spec2Model ----
(***************************************************************************)
(* A model of the capture automation core of aws-capture-auto:             *)
(*   - the field validators of Capture (src/src/capture_automation.py),    *)
(*   - CaptureAutomation.login / capture / captures,                       *)
(*   - the "capture" and "captures" commands of main (src/src/main.py).    *)
(*                                                                         *)
(* Strings the validators inspect are sequences of one-character strings.  *)
(* An Optional[x] is a sequence of length at most one: <<>> is None and    *)
(* <<x>> is the value x.                                                   *)
(***************************************************************************)
EXTENDS Integers, Sequences, FiniteSets, TLC

\* ------------------------------------------------------------------ bounds

\* Longest filename enumerated character by character.
MaxNameLen == 5
\* Longest viewport string enumerated character by character.
MaxViewLen == 4
\* Longest selector enumerated character by character.
MaxSelLen == 3
\* Requests handled in one run of the model, over all its invocations of
\* login / capture / captures (a login or an empty batch counts as one).
MaxWork == 3
\* The clock value from which the model stops adding time no sleep accounts
\* for (navigation, waits); sleeps still add their wait_time.
MaxClock == 1

\* ----------------------------------------------------------------- strings

None == <<>>
Some(x) == <<x>>
IsNone(o) == Len(o) = 0
Get(o) == o[1]

\* All sequences over S of length at most n.
SeqUpTo(S, n) == UNION {[1..k -> S] : k \in 0..n}

\* str.endswith
EndsWith(s, suffix) ==
    /\ Len(s) >= Len(suffix)
    /\ SubSeq(s, Len(s) - Len(suffix) + 1, Len(s)) = suffix

\* Characters str.isspace() holds of.
Whitespace == {" "}

\* str.strip() leaves nothing: every character is whitespace.
StripsToEmpty(s) == \A i \in 1..Len(s) : s[i] \in Whitespace

RECURSIVE LStrip(_)
LStrip(s) ==
    IF s # <<>> /\ Head(s) \in Whitespace THEN LStrip(Tail(s)) ELSE s

RECURSIVE RStrip(_)
RStrip(s) ==
    IF s # <<>> /\ s[Len(s)] \in Whitespace
    THEN RStrip(SubSeq(s, 1, Len(s) - 1))
    ELSE s

\* str.strip
Strip(s) == RStrip(LStrip(s))

\* str.lower, on the letters the model uses.
LowerChar(c) ==
    CASE c = "X" -> "x"
      [] c = "A" -> "a"
      [] OTHER -> c

Lower(s) == [i \in 1..Len(s) |-> LowerChar(s[i])]

\* str.split(sep) for a one-character separator: the parts between the
\* separators, empty parts kept.
RECURSIVE SplitAcc(_, _, _)
SplitAcc(s, sep, cur) ==
    IF s = <<>> THEN <<cur>>
    ELSE IF Head(s) = sep THEN <<cur>> \o SplitAcc(Tail(s), sep, <<>>)
    ELSE SplitAcc(Tail(s), sep, Append(cur, Head(s)))

Split(s, sep) == SplitAcc(s, sep, <<>>)

\* The ASCII decimal digits and their values.
Digits == {"0", "1", "2", "8", "9"}

DigitVal(c) ==
    CASE c = "0" -> 0
      [] c = "1" -> 1
      [] c = "2" -> 2
      [] c = "8" -> 8
      [] c = "9" -> 9

AllDigits(s) == s # <<>> /\ \A i \in 1..Len(s) : s[i] \in Digits

RECURSIVE DigitsVal(_)
DigitsVal(s) ==
    IF s = <<>> THEN 0
    ELSE 10 * DigitsVal(SubSeq(s, 1, Len(s) - 1)) + DigitVal(s[Len(s)])

\* int(str): surrounding whitespace is dropped, one sign is allowed, then
\* at least one digit. IntOk is "int() does not raise ValueError".
IntBody(s) ==
    LET t == Strip(s)
    IN  IF t # <<>> /\ Head(t) \in {"-", "+"} THEN Tail(t) ELSE t

IntOk(s) == AllDigits(IntBody(s))

IntVal(s) ==
    LET t == Strip(s)
    IN  IF t # <<>> /\ Head(t) = "-"
        THEN 0 - DigitsVal(IntBody(s))
        ELSE DigitsVal(IntBody(s))

\* -------------------------------------------------------------- validators

Ok(v) == [ok |-> TRUE, val |-> v, err |-> "none"]
Err(field) == [ok |-> FALSE, val |-> None, err |-> field]

\* The letter e with acute accent, one character, written by its code point.
EAcute == "U+00E9"

\* Characters of the model's alphabets that str.isalnum() holds of. The
\* last one is a non-ASCII letter: isalnum is Unicode-aware.
AsciiAlnum == {"a", "p", "n", "g", "1"}
UnicodeAlnum == AsciiAlnum \cup {EAcute}

IsAlnum(c) == c \in UnicodeAlnum

DotPng == <<".", "p", "n", "g">>

\* The characters validate_selector refuses.
SelectorBad == {"<", ">", "\"", "'"}

\* Mutant: a blank selector is kept as it is.
validate_selector_keeps_blank(v) ==
    IF IsNone(v) THEN Ok(None)
    ELSE IF \E i \in 1..Len(Get(v)) : Get(v)[i] \in SelectorBad
         THEN Err("selector")
    ELSE Ok(v)

\* Capture.validate_selector: v is an Optional string.

validate_selector(v) ==
    IF IsNone(v) THEN Ok(None)
    ELSE IF StripsToEmpty(Get(v)) THEN Ok(None)
    ELSE IF \E i \in 1..Len(Get(v)) : Get(v)[i] \in SelectorBad
         THEN Err("selector")
    ELSE Ok(v)

\* Mutant: ".png" is appended whatever the name ends with.
FilenameAlwaysSuffixed(s) == s \o DotPng

\* Capture.validate_filename: v is an Optional string.
FilenameSuffixed(s) == IF EndsWith(s, DotPng) THEN s ELSE s \o DotPng

FilenameCharOk(c) == IsAlnum(c) \/ c \in {".", "_", "-"}

validate_filename(v) ==
    IF IsNone(v) THEN Ok(None)
    ELSE LET w == FilenameSuffixed(Get(v))
         IN  IF \A i \in 1..Len(w) : FilenameCharOk(w[i])
             THEN Ok(Some(w))
             ELSE Err("filename")

\* Capture.validate_viewport_size (pre=True): v is None, a string
\* [kind |-> "str", s |-> chars], or a list/tuple [kind |-> "seq",
\* items |-> elements], an element being [t |-> "int" or "float", n |-> k].
ViewNone == [kind |-> "none", s |-> <<>>, items |-> <<>>]
ViewStr(s) == [kind |-> "str", s |-> s, items |-> <<>>]
ViewSeq(items) == [kind |-> "seq", s |-> <<>>, items |-> items]
IntItem(n) == [t |-> "int", n |-> n]
FloatItem(n) == [t |-> "float", n |-> n]

\* width, height = map(int, v.lower().split('x')): ValueError when the
\* number of parts is not two or when int() rejects a part.
viewport_from_string(s) ==
    LET parts == Split(Lower(s), "x")
    IN  IF Len(parts) = 2 /\ IntOk(parts[1]) /\ IntOk(parts[2])
        THEN Ok(Some(<<IntVal(parts[1]), IntVal(parts[2])>>))
        ELSE Err("viewport_size")

viewport_from_pair(items) ==
    IF Len(items) # 2 THEN Err("viewport_size")
    ELSE IF \A i \in 1..2 : items[i].t = "int" /\ items[i].n > 0
         THEN Ok(Some(<<items[1].n, items[2].n>>))
    ELSE Err("viewport_size")

validate_viewport_size(v) ==
    CASE v.kind = "none" -> Ok(None)
      [] v.kind = "str" -> viewport_from_string(v.s)
      [] v.kind = "seq" -> viewport_from_pair(v.items)

\* Capture.get_viewport_dict on a validated viewport_size.
get_viewport_dict(vs) ==
    IF IsNone(vs) THEN None
    ELSE Some([width |-> Get(vs)[1], height |-> Get(vs)[2]])

\* Capture.validate_url: urlparse is the library's; the model knows its
\* result for the URLs it uses.
Urlparse(u) ==
    CASE u = "https://a.example/x" -> [scheme |-> "https", netloc |-> "a.example"]
      [] u = "https://b.example/y" -> [scheme |-> "https", netloc |-> "b.example"]
      [] u = "a.example/x" -> [scheme |-> "", netloc |-> ""]
      [] OTHER -> [scheme |-> "", netloc |-> ""]

validate_url(u) ==
    LET r == Urlparse(u)
    IN  IF r.scheme # "" /\ r.netloc # "" THEN Ok(u) ELSE Err("url")

\* ------------------------------------------------------------------- state

VARIABLES
    vin,          \* validator run: the raw field value
    vout,         \* validator run: the validator's result, or Pending
    heap,         \* the Capture objects constructed so far, by identity
    sessionFile,  \* the session file on disk
    files,        \* the screenshot files on disk
    clock,        \* wall clock, in seconds
    calls,        \* invocations started so far
    work,         \* requests taken on so far
    op,           \* the operation in progress
    pc,           \* its position
    argv,         \* main: the raw entries of the command
    batch,        \* the objects handed to capture / captures
    dir,          \* the screenshots_dir argument
    idx,          \* captures: index of the request in progress
    results,      \* captures: capture_results
    warnings,     \* captures: requests a selector warning was printed for
    playwright,   \* the sync_playwright() scope: off, running, stopped
    browser,      \* the Browser of this invocation: none, open, closed
    launches,     \* browsers launched by this invocation
    ctxMade,      \* contexts created by this invocation
    ctxOpen,      \* contexts created and not closed
    pageOpen,     \* pages created and not closed
    closeEvent,   \* login: the operator closed the page
    waitError,    \* login: the wait for the close event raised
    saved,        \* login: how the save of the session went
    report,       \* captures: the report written by this invocation
    outcome,      \* how the invocation ended
    fault,        \* the step whose exception left the operation
    retPath       \* the path capture / login returned

vvars == <<vin, vout>>
callvars == <<calls, work, op, argv, batch, dir>>
loopvars == <<idx, results, warnings>>
loginvars == <<closeEvent, waitError, saved>>
endvars == <<outcome, fault, retPath>>
vars == <<vin, vout, heap, sessionFile, files, clock, calls, work, op, pc, argv,
          batch, dir, idx, results, warnings, playwright, browser, launches,
          ctxMade, ctxOpen, pageOpen, closeEvent, waitError, saved, report,
          outcome, fault, retPath>>

Pending == [ok |-> FALSE, val |-> None, err |-> "pending"]
NoInput == [field |-> "none", v |-> None]

\* --------------------------------------------------------- Capture objects

\* wait_time: int = Field(default=5, ge=0)
validate_wait_time(w) == IF w >= 0 THEN Ok(w) ELSE Err("wait_time")

\* Capture(**raw): every field validator runs; one failure fails the
\* construction (pydantic's ValidationError, a ValueError).
FieldResults(raw) ==
    <<validate_url(raw.url), validate_wait_time(raw.wait_time),
      validate_selector(raw.selector), validate_filename(raw.filename),
      validate_viewport_size(raw.viewport_size)>>

ConstructOk(raw) == \A i \in 1..5 : FieldResults(raw)[i].ok

GivenName(chars) == [kind |-> "given", chars |-> chars, ts |-> 0]

Construct(raw) ==
    [url |-> raw.url,
     wait_time |-> raw.wait_time,
     selector |-> validate_selector(raw.selector).val,
     fullpage |-> raw.fullpage,
     filename |-> IF IsNone(validate_filename(raw.filename).val) THEN None
                  ELSE Some(GivenName(Get(validate_filename(raw.filename).val))),
     viewport_size |-> validate_viewport_size(raw.viewport_size).val,
     screenshot_path |-> None]

\* The raw entries a command line or a JSON configuration supplies.
RawPlain ==
    [url |-> "https://a.example/x", wait_time |-> 0, selector |-> None,
     fullpage |-> TRUE, filename |-> None, viewport_size |-> ViewNone]
RawSelector ==
    [url |-> "https://b.example/y", wait_time |-> 1,
     selector |-> Some(<<"#", "a">>), fullpage |-> FALSE,
     filename |-> Some(<<"a">>),
     viewport_size |-> ViewStr(<<"1", "9", "2", "0", "x", "1", "0", "8", "0">>)]
RawBadUrl ==
    [url |-> "a.example/x", wait_time |-> 0, selector |-> None,
     fullpage |-> TRUE, filename |-> None, viewport_size |-> ViewNone]

RawPool == {RawPlain, RawSelector, RawBadUrl}

DefaultDir == "screenshots"
Dirs == {DefaultDir, "out"}

\* f"screenshot_{timestamp}.png", timestamp = now to the second.
SynthName(t) == [kind |-> "ts", chars |-> <<>>, ts |-> t]

\* screenshots_path / capture.filename
PathOf(d, name) == [dir |-> d, name |-> name]

\* ------------------------------------------------------------------- Init

NoReport == [writes |-> 0, sections |-> <<>>]
NoSession == [exists |-> FALSE, valid |-> FALSE, gen |-> 0]
OldSession == [exists |-> TRUE, valid |-> TRUE, gen |-> 0]

IdleCall ==
    /\ op = "none" /\ pc = "idle"
    /\ argv = <<>> /\ batch = <<>> /\ dir = DefaultDir
    /\ idx = 0 /\ results = <<>> /\ warnings = {}
    /\ playwright = "off" /\ browser = "none"
    /\ launches = 0 /\ ctxMade = 0 /\ ctxOpen = {} /\ pageOpen = {}
    /\ closeEvent = FALSE /\ waitError = FALSE /\ saved = "none"
    /\ report = NoReport
    /\ outcome = "none" /\ fault = "none" /\ retPath = None

Init ==
    /\ vin = NoInput /\ vout = Pending
    /\ heap = <<>>
    /\ sessionFile \in {NoSession, OldSession}
    /\ files = {}
    /\ clock = 0 /\ calls = 0 /\ work = 0
    /\ IdleCall

\* ---------------------------------------------------------------- helpers

Cur == batch[idx]

SetField(o, f, v) == [heap EXCEPT ![o] = [@ EXCEPT ![f] = v]]

\* Path.exists() on the session file.
SessionExists == sessionFile.exists

\* Mutant: storage_state is passed whether or not the session file exists.
ContextForAlwaysSeeded(id, o) ==
    [id |-> id, seeded |-> TRUE,
     viewport |-> get_viewport_dict(heap[o].viewport_size)]

\* browser.new_context(**context_options): storage_state is passed exactly
\* when the session file exists; the engine cannot read a file that holds
\* no complete JSON document.
ContextFor(id, o) ==
    [id |-> id, seeded |-> SessionExists,
     viewport |-> get_viewport_dict(heap[o].viewport_size)]

ContextReadable == SessionExists => sessionFile.valid

\* "if capture.selector:": the selector is neither None nor empty.
HasSelector(sel) == ~IsNone(sel) /\ Get(sel) # <<>>

\* The operation goes on to its next step.
Goes(next) ==
    /\ pc' = next
    /\ UNCHANGED <<playwright, outcome, fault>>

\* Leaving the "with sync_playwright()" block by an exception of `step`:
\* the driver is stopped; no close() of the method body has run.
Raise(step) ==
    /\ pc' = "done"
    /\ outcome' = "raised"
    /\ fault' = step
    /\ playwright' = "stopped"

\* Leaving the with block by a return.
Returns ==
    /\ pc' = "done"
    /\ outcome' = "returned"
    /\ playwright' = "stopped"
    /\ UNCHANGED fault

\* Mutant: a synthesized filename is made unique by the object it is for.
ResolvedNameUnique(o) ==
    IF IsNone(heap[o].filename)
    THEN [kind |-> "ts", chars |-> <<"-", ToString(o)>>, ts |-> clock]
    ELSE Get(heap[o].filename)

\* The filename the screenshot step uses: the given one, or one made from
\* the clock (and stored in the object).
ResolvedName(o) ==
    IF IsNone(heap[o].filename) THEN SynthName(clock) ELSE Get(heap[o].filename)

\* Mutant: screenshot_path is assigned with the filename, before the
\* screenshot is taken.
WithNameAndPath(o) ==
    [heap EXCEPT ![o] = [@ EXCEPT !.filename = Some(ResolvedName(o)),
                                  !.screenshot_path =
                                      Some(PathOf(dir, ResolvedName(o)))]]

WithName(o) == SetField(o, "filename", Some(ResolvedName(o)))

\* page.screenshot(path=...) wrote the file: it replaces what the path held.
WriteShot(path, o) ==
    {f \in files : f.path # path} \cup {[path |-> path, by |-> <<calls, o>>]}

\* capture.screenshot_path = str(screenshot_path), on the object that
\* already carries its resolved filename.
SetShotPath(h, o, path) ==
    [h EXCEPT ![o] = [@ EXCEPT !.screenshot_path = Some(path)]]

\* Mutant: the result is put in front of the list.
AddResultFront(rs, o) == <<o>> \o rs

\* capture_results.append(capture)
AddResult(rs, o) == Append(rs, o)

\* time.sleep(wait_time), seen from the clock the filename is made from:
\* the sleep's seconds, and possibly one more second for the navigation
\* and the selector wait before it.
Elapsed == IF clock < MaxClock THEN {0, 1} ELSE {0}

Slept(w) == {clock + w + e : e \in Elapsed}

\* ------------------------------------------------- CaptureAutomation.captures

CapsLaunch ==
    /\ op = "captures" /\ pc = "caps_launch"
    /\ playwright' = "running"
    /\ browser' = "open"
    /\ launches' = launches + 1
    /\ results' = <<>>
    /\ idx' = IF batch = <<>> THEN 0 ELSE 1
    /\ pc' = IF batch = <<>> THEN "caps_close_browser" ELSE "caps_context"
    /\ UNCHANGED <<vvars, heap, sessionFile, files, clock, callvars, warnings,
                   ctxMade, ctxOpen, pageOpen, loginvars, report, endvars>>

\* Mutant: every request of the batch launches a browser of its own.
CapsNewContextRelaunch ==
    /\ op = "captures" /\ pc = "caps_context"
    /\ launches' = launches + 1
    /\ ctxOpen' = ctxOpen \cup {ContextFor(idx, Cur)}
    /\ pageOpen' = pageOpen \cup {idx}
    /\ ctxMade' = ctxMade + 1
    /\ Goes("caps_goto")
    /\ UNCHANGED <<vvars, heap, sessionFile, files, clock, callvars, loopvars,
                   browser, loginvars, report, retPath>>

CapsNewContext ==
    /\ op = "captures" /\ pc = "caps_context"
    /\ IF ContextReadable
       THEN /\ ctxOpen' = ctxOpen \cup {ContextFor(idx, Cur)}
            /\ pageOpen' = pageOpen \cup {idx}
            /\ ctxMade' = ctxMade + 1
            /\ Goes("caps_goto")
       ELSE /\ Raise("context")
            /\ UNCHANGED <<ctxOpen, pageOpen, ctxMade>>
    /\ UNCHANGED <<vvars, heap, sessionFile, files, clock, callvars, loopvars,
                   browser, launches, loginvars, report, retPath>>

\* Mutant: a navigation failure in a batch is noted and the request goes on.
CapsGotoTolerated ==
    /\ op = "captures" /\ pc = "caps_goto"
    /\ \/ Goes("caps_wait")
       \/ /\ pc' = "caps_wait"
          /\ fault' = "goto"
          /\ UNCHANGED <<playwright, outcome>>
    /\ UNCHANGED <<vvars, heap, sessionFile, files, clock, callvars, loopvars,
                   browser, launches, ctxMade, ctxOpen, pageOpen, loginvars,
                   report, retPath>>

CapsGoto ==
    /\ op = "captures" /\ pc = "caps_goto"
    /\ \/ Goes("caps_wait")
       \/ Raise("goto")
    /\ UNCHANGED <<vvars, heap, sessionFile, files, clock, callvars, loopvars,
                   browser, launches, ctxMade, ctxOpen, pageOpen, loginvars,
                   report, retPath>>

\* Mutant: the batch does not catch the exception of the selector wait.
CapsSelectorRaises ==
    /\ Raise("selector")
    /\ UNCHANGED warnings

\* The selector wait of the batch: a timeout or any other exception is
\* caught, a warning is printed, and the loop body goes on.
CapsSelectorFailed ==
    /\ warnings' = warnings \cup {idx}
    /\ Goes("caps_sleep")

CapsWaitSelector ==
    /\ op = "captures" /\ pc = "caps_wait"
    /\ IF ~HasSelector(heap[Cur].selector)
       THEN /\ Goes("caps_sleep")
            /\ UNCHANGED warnings
       ELSE \/ /\ Goes("caps_sleep")
               /\ UNCHANGED warnings
            \/ CapsSelectorFailed
    /\ UNCHANGED <<vvars, heap, sessionFile, files, clock, callvars, idx,
                   results, browser, launches, ctxMade, ctxOpen, pageOpen,
                   loginvars, report, retPath>>

CapsSleep ==
    /\ op = "captures" /\ pc = "caps_sleep"
    /\ clock' \in Slept(heap[Cur].wait_time)
    /\ Goes("caps_shot")
    /\ UNCHANGED <<vvars, heap, sessionFile, files, callvars, loopvars, browser,
                   launches, ctxMade, ctxOpen, pageOpen, loginvars, report,
                   retPath>>

\* Lines 383-399: the filename, the screenshot, screenshot_path and the
\* append to capture_results.
CapsScreenshot ==
    /\ op = "captures" /\ pc = "caps_shot"
    /\ LET path == PathOf(dir, ResolvedName(Cur))
       IN  \/ /\ files' = WriteShot(path, Cur)
              /\ heap' = SetShotPath(WithName(Cur), Cur, path)
              /\ results' = AddResult(results, Cur)
              /\ Goes("caps_close")
           \/ /\ heap' = WithName(Cur)
              /\ Raise("screenshot")
              /\ UNCHANGED <<files, results>>
    /\ UNCHANGED <<vvars, sessionFile, clock, callvars, idx, warnings, browser,
                   launches, ctxMade, ctxOpen, pageOpen, loginvars, report,
                   retPath>>

\* Mutant: the page is closed and its context is left open.
CapsClosePageOnly ==
    /\ op = "captures" /\ pc = "caps_close"
    /\ pageOpen' = pageOpen \ {idx}
    /\ ctxOpen' = ctxOpen
    /\ IF idx < Len(batch)
       THEN idx' = idx + 1 /\ Goes("caps_context")
       ELSE idx' = idx /\ Goes("caps_close_browser")
    /\ UNCHANGED <<vvars, heap, sessionFile, files, clock, callvars, results,
                   warnings, browser, launches, ctxMade, loginvars, report,
                   retPath>>

CapsClosePage ==
    /\ op = "captures" /\ pc = "caps_close"
    /\ pageOpen' = pageOpen \ {idx}
    /\ ctxOpen' = {c \in ctxOpen : c.id # idx}
    /\ IF idx < Len(batch)
       THEN idx' = idx + 1 /\ Goes("caps_context")
       ELSE idx' = idx /\ Goes("caps_close_browser")
    /\ UNCHANGED <<vvars, heap, sessionFile, files, clock, callvars, results,
                   warnings, browser, launches, ctxMade, loginvars, report,
                   retPath>>

\* browser.close() closes the browser and everything it owns.
CapsCloseBrowser ==
    /\ op = "captures" /\ pc = "caps_close_browser"
    /\ browser' = "closed"
    /\ ctxOpen' = {}
    /\ pageOpen' = {}
    /\ Goes("caps_report")
    /\ UNCHANGED <<vvars, heap, sessionFile, files, clock, callvars, loopvars,
                   launches, ctxMade, loginvars, report, retPath>>

\* One report section per result: relative_path is "screenshots/" followed
\* by the name of the screenshot file.
Section(o) ==
    [obj |-> o, url |-> heap[o].url,
     src |-> PathOf(DefaultDir, Get(heap[o].screenshot_path).name),
     ts |-> clock]

\* Lines 408-433: the report is written and capture_results returned.
CapsReport ==
    /\ op = "captures" /\ pc = "caps_report"
    /\ report' = [writes |-> report.writes + 1,
                  sections |-> [i \in 1..Len(results) |-> Section(results[i])]]
    /\ Returns
    /\ UNCHANGED <<vvars, heap, sessionFile, files, clock, callvars, loopvars,
                   browser, launches, ctxMade, ctxOpen, pageOpen, loginvars,
                   retPath>>

\* -------------------------------------------------- CaptureAutomation.capture

Only == batch[1]

CapLaunch ==
    /\ op = "capture" /\ pc = "cap_launch"
    /\ playwright' = "running"
    /\ browser' = "open"
    /\ launches' = launches + 1
    /\ pc' = "cap_context"
    /\ UNCHANGED <<vvars, heap, sessionFile, files, clock, callvars, loopvars,
                   ctxMade, ctxOpen, pageOpen, loginvars, report, endvars>>

CapNewContext ==
    /\ op = "capture" /\ pc = "cap_context"
    /\ IF ContextReadable
       THEN /\ ctxOpen' = ctxOpen \cup {ContextFor(1, Only)}
            /\ pageOpen' = pageOpen \cup {1}
            /\ ctxMade' = ctxMade + 1
            /\ Goes("cap_goto")
       ELSE /\ Raise("context")
            /\ UNCHANGED <<ctxOpen, pageOpen, ctxMade>>
    /\ UNCHANGED <<vvars, heap, sessionFile, files, clock, callvars, loopvars,
                   browser, launches, loginvars, report, retPath>>

CapGoto ==
    /\ op = "capture" /\ pc = "cap_goto"
    /\ \/ Goes("cap_wait")
       \/ Raise("goto")
    /\ UNCHANGED <<vvars, heap, sessionFile, files, clock, callvars, loopvars,
                   browser, launches, ctxMade, ctxOpen, pageOpen, loginvars,
                   report, retPath>>

\* Mutant: the single capture goes on after the timeout of its wait.
CapSelectorTimeoutTolerated ==
    /\ pc' = "cap_sleep"
    /\ fault' = "timeout"
    /\ UNCHANGED <<playwright, outcome>>

\* No timeout argument is passed: the wait gives up after the library's
\* default timeout (30000 ms) with a TimeoutError nothing here catches.
CapSelectorTimeout == Raise("timeout")

\* page.wait_for_selector(selector, state="visible"): returns when the
\* element is visible; an exception of the wait is not caught here.
CapWaitSelector ==
    /\ op = "capture" /\ pc = "cap_wait"
    /\ IF ~HasSelector(heap[Only].selector)
       THEN Goes("cap_sleep")
       ELSE \/ Goes("cap_sleep")
            \/ CapSelectorTimeout
            \/ Raise("selector")
    /\ UNCHANGED <<vvars, heap, sessionFile, files, clock, callvars, loopvars,
                   browser, launches, ctxMade, ctxOpen, pageOpen, loginvars,
                   report, retPath>>

CapSleep ==
    /\ op = "capture" /\ pc = "cap_sleep"
    /\ clock' \in Slept(heap[Only].wait_time)
    /\ Goes("cap_shot")
    /\ UNCHANGED <<vvars, heap, sessionFile, files, callvars, loopvars, browser,
                   launches, ctxMade, ctxOpen, pageOpen, loginvars, report,
                   retPath>>

\* Lines 211-229: the filename, the screenshot, screenshot_path,
\* browser.close() and the return.
CapScreenshot ==
    /\ op = "capture" /\ pc = "cap_shot"
    /\ LET path == PathOf(dir, ResolvedName(Only))
       IN  \/ /\ files' = WriteShot(path, Only)
              /\ heap' = SetShotPath(WithName(Only), Only, path)
              /\ browser' = "closed"
              /\ ctxOpen' = {}
              /\ pageOpen' = {}
              /\ retPath' = Some(path)
              /\ Returns
           \/ /\ heap' = WithName(Only)
              /\ Raise("screenshot")
              /\ UNCHANGED <<files, browser, ctxOpen, pageOpen, retPath>>
    /\ UNCHANGED <<vvars, sessionFile, clock, callvars, loopvars, launches,
                   ctxMade, loginvars, report>>

\* ---------------------------------------------------- CaptureAutomation.login

LoginCtx == [id |-> 1, seeded |-> SessionExists, viewport |-> None]

\* str(self.session_file)
SessionPath == PathOf("session", GivenName(<<>>))

\* Lines 105-120: launch, new_context (seeded when the file exists), new_page.
LoginLaunch ==
    /\ op = "login" /\ pc = "login_launch"
    /\ browser' = "open"
    /\ launches' = launches + 1
    /\ IF ContextReadable
       THEN /\ ctxOpen' = ctxOpen \cup {LoginCtx}
            /\ pageOpen' = pageOpen \cup {1}
            /\ ctxMade' = ctxMade + 1
            /\ playwright' = "running"
            /\ pc' = "login_goto"
            /\ UNCHANGED <<outcome, fault>>
       ELSE /\ Raise("context")
            /\ UNCHANGED <<ctxOpen, pageOpen, ctxMade>>
    /\ UNCHANGED <<vvars, heap, sessionFile, files, clock, callvars, loopvars,
                   loginvars, report, retPath>>

\* Mutant: login does not wait for the page to be closed.
LoginGotoNoWait ==
    /\ op = "login" /\ pc = "login_goto"
    /\ \/ Goes("login_save")
       \/ Raise("goto")
    /\ UNCHANGED <<vvars, heap, sessionFile, files, clock, callvars, loopvars,
                   browser, launches, ctxMade, ctxOpen, pageOpen, loginvars,
                   report, retPath>>

\* Lines 123-126: page.goto(login_url) and the messages to the operator.
LoginGoto ==
    /\ op = "login" /\ pc = "login_goto"
    /\ \/ Goes("login_wait")
       \/ Raise("goto")
    /\ UNCHANGED <<vvars, heap, sessionFile, files, clock, callvars, loopvars,
                   browser, launches, ctxMade, ctxOpen, pageOpen, loginvars,
                   report, retPath>>

\* page.wait_for_event("close", timeout=0) returns: the operator closed the
\* page. Nothing else in the model ends the wait normally.
LoginOperatorClose ==
    /\ op = "login" /\ pc = "login_wait"
    /\ closeEvent' = TRUE
    /\ pageOpen' = pageOpen \ {1}
    /\ Goes("login_save")
    /\ UNCHANGED <<vvars, heap, sessionFile, files, clock, callvars, loopvars,
                   browser, launches, ctxMade, ctxOpen, waitError, saved,
                   report, retPath>>

\* The wait raises (the page crashed, the connection dropped): the
\* exception is caught and printed, and login goes on to the save.
LoginWaitError ==
    /\ op = "login" /\ pc = "login_wait"
    /\ waitError' = TRUE
    /\ Goes("login_save")
    /\ UNCHANGED <<vvars, heap, sessionFile, files, clock, callvars, loopvars,
                   browser, launches, ctxMade, ctxOpen, pageOpen, closeEvent,
                   saved, report, retPath>>

\* What the session file holds after the save attempt, by the point the
\* attempt got to: storage_state() raised, open(..., "w") raised,
\* json.dump raised after open had truncated the file, or all succeeded.
SaveOutcomes == {"storage_failed", "open_failed", "dump_failed", "saved"}

FileAfterSave(r) ==
    CASE r = "saved" -> [exists |-> TRUE, valid |-> TRUE, gen |-> calls]
      [] r = "dump_failed" -> [exists |-> TRUE, valid |-> FALSE, gen |-> calls]
      [] OTHER -> sessionFile

\* Mutant: the save is not wrapped in try/except.
LoginSaveRaises ==
    /\ Raise("save")
    /\ UNCHANGED retPath

\* Lines 141-143: an exception of the save is caught; login prints it and
\* returns None, leaving the with block.
LoginSaveFailed ==
    /\ retPath' = None
    /\ Returns

\* Lines 136-143.
LoginSave ==
    /\ op = "login" /\ pc = "login_save"
    /\ \E r \in SaveOutcomes :
        /\ saved' = r
        /\ sessionFile' = FileAfterSave(r)
        /\ IF r = "saved"
           THEN /\ Goes("login_close")
                /\ UNCHANGED retPath
           ELSE LoginSaveFailed
    /\ UNCHANGED <<vvars, heap, files, clock, callvars, loopvars, browser,
                   launches, ctxMade, ctxOpen, pageOpen, closeEvent, waitError,
                   report>>

\* Lines 145-151: context.close(), whose exception is caught, then the
\* return of the session file's path.
LoginClose ==
    /\ op = "login" /\ pc = "login_close"
    /\ \/ /\ ctxOpen' = {}
          /\ pageOpen' = {}
       \/ UNCHANGED <<ctxOpen, pageOpen>>
    /\ retPath' = Some(SessionPath)
    /\ Returns
    /\ UNCHANGED <<vvars, heap, sessionFile, files, clock, callvars, loopvars,
                   browser, launches, ctxMade, loginvars, report>>

\* ------------------------------------------------------------------ callers

Cost(n) == IF n = 0 THEN 1 ELSE n

CanStart(n) == pc \in {"idle", "done"} /\ work + Cost(n) <= MaxWork

\* A new invocation: nothing of the previous one's browser is carried over.
FreshCall(n) ==
    /\ calls' = calls + 1
    /\ work' = work + Cost(n)
    /\ idx' = 0 /\ results' = <<>> /\ warnings' = {}
    /\ playwright' = "off" /\ browser' = "none"
    /\ launches' = 0 /\ ctxMade' = 0 /\ ctxOpen' = {} /\ pageOpen' = {}
    /\ closeEvent' = FALSE /\ waitError' = FALSE /\ saved' = "none"
    /\ report' = NoReport
    /\ fault' = "none" /\ retPath' = None

\* The command's entries are constructed in order; the first ValueError
\* ends the command: Error is printed and main returns.
LoadFails ==
    /\ heap' = SubSeq(heap, 1, Len(heap) - Len(batch))
    /\ batch' = <<>>
    /\ pc' = "done"
    /\ outcome' = "invalid"

\* main, command "capture": Capture(...) is constructed, then ca.capture
\* runs; a ValueError of the construction is printed and main returns.
MainCapture ==
    /\ CanStart(1)
    /\ \E raw \in RawPool :
        /\ FreshCall(1)
        /\ op' = "capture" /\ dir' = DefaultDir /\ argv' = <<raw>>
        /\ IF ConstructOk(raw)
           THEN /\ heap' = Append(heap, Construct(raw))
                /\ batch' = <<Len(heap) + 1>>
                /\ pc' = "cap_launch"
                /\ outcome' = "none"
           ELSE /\ pc' = "done"
                /\ outcome' = "invalid"
                /\ batch' = <<>>
                /\ UNCHANGED heap
    /\ UNCHANGED <<vvars, sessionFile, files, clock>>

\* main, command "captures": the entries of --json or --urls.
MainCaptures ==
    /\ \E raws \in SeqUpTo(RawPool, MaxWork) :
        /\ CanStart(Len(raws))
        /\ FreshCall(Len(raws))
        /\ op' = "captures" /\ dir' = DefaultDir
        /\ argv' = raws /\ batch' = <<>>
        /\ pc' = "load"
        /\ outcome' = "none"
    /\ UNCHANGED <<vvars, heap, sessionFile, files, clock>>

\* load_captures_from_json / the list comprehension of main: the next
\* entry is constructed; a ValueError drops the list built so far.
LoadEntry ==
    /\ op = "captures" /\ pc = "load" /\ Len(batch) < Len(argv)
    /\ IF ConstructOk(argv[Len(batch) + 1])
       THEN /\ heap' = Append(heap, Construct(argv[Len(batch) + 1]))
            /\ batch' = Append(batch, Len(heap) + 1)
            /\ UNCHANGED <<pc, outcome>>
       ELSE LoadFails
    /\ UNCHANGED <<vvars, sessionFile, files, clock, calls, work, op, argv, dir,
                   loopvars, playwright, browser, launches, ctxMade, ctxOpen,
                   pageOpen, loginvars, report, fault, retPath>>

\* Mutant: captures is started on the entries constructed so far.
LoadDoneEarly ==
    /\ op = "captures" /\ pc = "load"
    /\ pc' = "caps_launch"
    /\ UNCHANGED <<vvars, heap, sessionFile, files, clock, callvars, loopvars,
                   playwright, browser, launches, ctxMade, ctxOpen, pageOpen,
                   loginvars, report, endvars>>

\* results = ca.captures(captures), once every entry is constructed.
LoadDone ==
    /\ op = "captures" /\ pc = "load" /\ Len(batch) = Len(argv)
    /\ pc' = "caps_launch"
    /\ UNCHANGED <<vvars, heap, sessionFile, files, clock, callvars, loopvars,
                   playwright, browser, launches, ctxMade, ctxOpen, pageOpen,
                   loginvars, report, endvars>>

\* A client of the class calls capture on an object it holds.
ApiCapture ==
    /\ CanStart(1)
    /\ \E o \in 1..Len(heap), d \in Dirs :
        /\ FreshCall(1)
        /\ op' = "capture" /\ dir' = d /\ argv' = <<>>
        /\ batch' = <<o>>
        /\ pc' = "cap_launch"
        /\ outcome' = "none"
    /\ UNCHANGED <<vvars, heap, sessionFile, files, clock>>

\* A client of the class calls captures on objects it holds.
ApiCaptures ==
    /\ \E os \in SeqUpTo(1..Len(heap), MaxWork), d \in Dirs :
        /\ CanStart(Len(os))
        /\ FreshCall(Len(os))
        /\ op' = "captures" /\ dir' = d /\ argv' = <<>>
        /\ batch' = os
        /\ pc' = "caps_launch"
        /\ outcome' = "none"
    /\ UNCHANGED <<vvars, heap, sessionFile, files, clock>>

\* main, command "login".
MainLogin ==
    /\ CanStart(1)
    /\ FreshCall(1)
    /\ op' = "login" /\ dir' = DefaultDir /\ argv' = <<>> /\ batch' = <<>>
    /\ pc' = "login_launch"
    /\ outcome' = "none"
    /\ UNCHANGED <<vvars, heap, sessionFile, files, clock>>

Next ==
    \/ MainCapture \/ MainCaptures \/ LoadEntry \/ LoadDone
    \/ ApiCapture \/ ApiCaptures \/ MainLogin
    \/ CapLaunch \/ CapNewContext \/ CapGoto \/ CapWaitSelector
    \/ CapSleep \/ CapScreenshot
    \/ CapsLaunch \/ CapsNewContext \/ CapsGoto \/ CapsWaitSelector
    \/ CapsSleep \/ CapsScreenshot \/ CapsClosePage \/ CapsCloseBrowser
    \/ CapsReport
    \/ LoginLaunch \/ LoginGoto \/ LoginOperatorClose \/ LoginWaitError
    \/ LoginSave \/ LoginClose

Spec == Init /\ [][Next]_vars

\* ------------------------------------------------ the validators, run alone

FilenameChars == {"a", ".", "p", "n", "g", "/", EAcute, "_"}
ViewChars == {"0", "1", "x", "X", "-", "a", " "}
SelectorChars == {"a", " ", "#", "<", ">", "\"", "'"}
PairItems == {IntItem(-1), IntItem(0), IntItem(1), IntItem(2), FloatItem(1)}

\* The strings the specification names.
View1920x1080 == <<"1", "9", "2", "0", "x", "1", "0", "8", "0">>
View0x100 == <<"0", "x", "1", "0", "0">>
ViewAbcXDef == <<"a", "b", "c", "x", "d", "e", "f">>

FilenameInputs ==
    {None} \cup {Some(s) : s \in SeqUpTo(FilenameChars, MaxNameLen)}
ViewStrInputs ==
    {ViewStr(s) : s \in SeqUpTo(ViewChars, MaxViewLen)
                          \cup {View1920x1080, View0x100, ViewAbcXDef}}
ViewSeqInputs == {ViewSeq(t) : t \in SeqUpTo(PairItems, 3)}
SelectorInputs ==
    {None} \cup {Some(s) : s \in SeqUpTo(SelectorChars, MaxSelLen)}

InitV ==
    /\ \/ \E v \in FilenameInputs : vin = [field |-> "filename", v |-> v]
       \/ \E v \in ViewStrInputs \cup {ViewNone} :
              vin = [field |-> "viewport_size", v |-> v]
       \/ \E v \in ViewSeqInputs : vin = [field |-> "viewport_size", v |-> v]
       \/ \E v \in SelectorInputs : vin = [field |-> "selector", v |-> v]
    /\ vout = Pending
    /\ heap = <<>> /\ sessionFile = NoSession /\ files = {}
    /\ clock = 0 /\ calls = 0 /\ work = 0
    /\ IdleCall

nonvvars == <<heap, sessionFile, files, clock, calls, work, op, pc, argv, batch,
              dir, idx, results, warnings, playwright, browser, launches,
              ctxMade, ctxOpen, pageOpen, closeEvent, waitError, saved,
              report, outcome, fault, retPath>>

RunValidateFilename ==
    /\ vin.field = "filename" /\ vout = Pending
    /\ vout' = validate_filename(vin.v)
    /\ UNCHANGED <<vin, nonvvars>>

RunValidateViewport ==
    /\ vin.field = "viewport_size" /\ vout = Pending
    /\ vout' = validate_viewport_size(vin.v)
    /\ UNCHANGED <<vin, nonvvars>>

RunValidateSelector ==
    /\ vin.field = "selector" /\ vout = Pending
    /\ vout' = validate_selector(vin.v)
    /\ UNCHANGED <<vin, nonvvars>>

NextV == RunValidateFilename \/ RunValidateViewport \/ RunValidateSelector

SpecV == InitV /\ [][NextV]_vars

\* ------------------------------------------------------------------- claims

InCaptures == op = "captures" /\ pc \notin {"idle", "load"}

\* C1: capture_results is at every moment the input batch up to the
\* request in progress, in input order, and a batch that returns (every
\* navigation and every screenshot succeeded) returns exactly one result
\* per request, in input order, whichever selector waits failed.
C1_ResultsInInputOrder ==
    InCaptures =>
        /\ Len(results) <= Len(batch)
        /\ results = SubSeq(batch, 1, Len(results))
        /\ (outcome = "returned" => results = batch)

\* A batch of three whose second request alone got a selector warning has
\* returned.
C1_Witness ==
    /\ InCaptures /\ outcome = "returned"
    /\ Len(batch) = 3 /\ warnings = {2}
    /\ Len(results) = 3

\* The steps of a request that follow the selector wait.
AfterWait == {"caps_sleep", "caps_shot", "caps_close"}

\* C2: in a batch, a failed selector wait never leaves captures as an
\* exception; the request it failed for got a warning and is still taken
\* through the sleep and the screenshot step, and once that request is
\* past the screenshot step it is in the results with its screenshot_path set.
C2_SelectorFailureTolerated ==
    InCaptures =>
        /\ fault # "selector"
        /\ \A i \in warnings :
            /\ i \in 1..idx
            /\ i = idx /\ pc \notin {"caps_close_browser", "caps_report", "done"}
                   => pc \in AfterWait
            /\ i = idx /\ outcome = "raised" => fault = "screenshot"
            /\ (i < idx \/ pc \in {"caps_close", "caps_close_browser", "caps_report"}
                        \/ outcome = "returned")
                   => /\ i <= Len(results)
                      /\ results[i] = batch[i]
                      /\ ~IsNone(heap[batch[i]].screenshot_path)

\* The request whose selector wait failed has had its screenshot taken.
C2_Witness ==
    /\ InCaptures /\ pc = "caps_close"
    /\ idx \in warnings
    /\ ~IsNone(heap[Cur].screenshot_path)

\* C3: when capture, captures or login is left, by a return or by an
\* exception, the browser it launched has been closed and no context or
\* page it created is still open.
C3_ReleasedOnEveryExit ==
    pc = "done" /\ launches > 0 =>
        /\ browser = "closed"
        /\ ctxOpen = {}
        /\ pageOpen = {}

\* The invocation has touched a browser resource or written a screenshot.
Touched ==
    \/ launches > 0 \/ ctxMade > 0
    \/ browser # "none" \/ playwright # "off"
    \/ ctxOpen # {} \/ pageOpen # {}
    \/ \E f \in files : f.by[1] = calls

\* C4: a command touches no browser resource and writes no screenshot
\* unless every entry it was given has been constructed (validated): an
\* entry the validators reject, wherever it is in the list, ends the
\* command with nothing launched, created or written.
C4_ValidatedBeforeBrowser ==
    /\ Touched /\ argv # <<>> =>
           /\ \A i \in 1..Len(argv) : ConstructOk(argv[i])
           /\ Len(batch) = Len(argv)
    /\ outcome = "invalid" => ~Touched
    /\ pc = "done" /\ (\E i \in 1..Len(argv) : ~ConstructOk(argv[i])) =>
           outcome = "invalid"

\* A batch command whose third entry is the invalid one has ended.
C4_Witness ==
    /\ op = "captures" /\ outcome = "invalid"
    /\ Len(argv) = 3
    /\ ConstructOk(argv[1]) /\ ConstructOk(argv[2]) /\ ~ConstructOk(argv[3])

\* C5: an object's screenshot_path never goes back to unset, so it leaves
\* unset at most once; it changes only in the screenshot step of a request
\* for that object, when the write succeeded and the file is on disk; a
\* step that raises changes no screenshot_path; a new object has none.
C5_PathSetOnlyByWrite ==
    [][/\ \A o \in 1..Len(heap) :
            o <= Len(heap') =>
                /\ ~IsNone(heap[o].screenshot_path)
                       => ~IsNone(heap'[o].screenshot_path)
                /\ heap'[o].screenshot_path # heap[o].screenshot_path =>
                       /\ pc \in {"cap_shot", "caps_shot"}
                       /\ o = (IF op = "captures" THEN Cur ELSE Only)
                       /\ outcome' # "raised"
                       /\ [path |-> Get(heap'[o].screenshot_path),
                           by |-> <<calls, o>>] \in files'
       /\ \A o \in (Len(heap) + 1)..Len(heap') :
            IsNone(heap'[o].screenshot_path)]_vars

\* One object has been captured by two invocations, into two directories,
\* and carries the path of the second.
C5_Witness ==
    \E o \in 1..Len(heap) : \E f1, f2 \in files :
        /\ f1.by = <<1, o>> /\ f2.by = <<2, o>>
        /\ f1.path # f2.path
        /\ heap[o].screenshot_path = Some(f2.path)

SaveFailures == {"storage_failed", "open_failed", "dump_failed"}

\* C6: a failure of login's save (reading the storage state, opening or
\* writing the session file) never leaves login as an exception: login
\* returns None. Login returns the session file's path only after a save
\* that wrote the file.
C6_SaveFailureReturnsNone ==
    op = "login" =>
        /\ fault # "save"
        /\ saved \in SaveFailures =>
               pc = "done" /\ outcome = "returned" /\ IsNone(retPath)
        /\ ~IsNone(retPath) =>
               /\ saved = "saved"
               /\ retPath = Some(SessionPath)
               /\ sessionFile = [exists |-> TRUE, valid |-> TRUE, gen |-> calls]

\* json.dump failed and login has returned.
C6_Witness ==
    op = "login" /\ saved = "dump_failed" /\ pc = "done"

\* Login has left the wait for the close event.
PastWait == pc \in {"login_save", "login_close"} \/ saved # "none"

\* C7 as stated: login gets past the wait, to the save, only when the
\* operator has closed the page.
C7_OnlyAfterOperatorClose ==
    op = "login" /\ PastWait => closeEvent

\* C7 as amended: login gets past the wait only by the operator's close
\* event or by an exception of the wait (caught and printed); while it
\* waits nothing is saved; the session file is written by this login only
\* after the wait has ended; a login that ends without either has raised
\* before the wait.
C7_OnlyAfterWaitEnded ==
    op = "login" =>
        /\ PastWait => closeEvent \/ waitError
        /\ sessionFile.gen = calls => closeEvent \/ waitError
        /\ pc = "login_wait" =>
               ~closeEvent /\ ~waitError /\ saved = "none" /\ outcome = "none"
        /\ pc = "done" /\ ~closeEvent /\ ~waitError =>
               outcome = "raised" /\ fault \in {"context", "goto"}

\* The session was written after the wait had raised, the page not closed.
C7_Witness ==
    op = "login" /\ saved = "saved" /\ waitError /\ ~closeEvent

\* C8: a save that fails leaves a valid session file as it was.
C8_FailedSaveKeepsFile ==
    [][op = "login" /\ pc = "login_save" /\ saved' \in SaveFailures
           /\ sessionFile.valid
         => sessionFile' = sessionFile]_vars

Validated(field) == vin.field = field /\ vout.err # "pending"

Rejected(field) == ~vout.ok /\ vout.err = field

\* The two numbers of a string of the form digits "x" digits, any case.
ViewParts(s) == Split(Lower(s), "x")

DigitsXDigits(s) ==
    /\ Len(ViewParts(s)) = 2
    /\ AllDigits(ViewParts(s)[1])
    /\ AllDigits(ViewParts(s)[2])

PositivePair(items) ==
    /\ Len(items) = 2
    /\ \A i \in 1..2 : items[i].t = "int" /\ items[i].n > 0

\* C9: a viewport string is accepted exactly when it is digits "x" digits
\* with both numbers positive, and then yields that pair of integers;
\* every other string is rejected with a viewport error, as a (width,
\* height) pair is accepted exactly when it holds two positive integers.
C9_ViewportAcceptsPositivePairs ==
    Validated("viewport_size") =>
        CASE vin.v.kind = "str" ->
                 IF /\ DigitsXDigits(vin.v.s)
                    /\ DigitsVal(ViewParts(vin.v.s)[1]) > 0
                    /\ DigitsVal(ViewParts(vin.v.s)[2]) > 0
                 THEN /\ vout.ok
                      /\ vout.val = Some(<<DigitsVal(ViewParts(vin.v.s)[1]),
                                           DigitsVal(ViewParts(vin.v.s)[2])>>)
                 ELSE Rejected("viewport_size")
          [] vin.v.kind = "seq" ->
                 IF PositivePair(vin.v.items)
                 THEN /\ vout.ok
                      /\ vout.val = Some(<<vin.v.items[1].n, vin.v.items[2].n>>)
                 ELSE Rejected("viewport_size")
          [] OTHER -> vout.ok /\ IsNone(vout.val)

AsciiFilenameChars == AsciiAlnum \cup {".", "_", "-"}
AlnumFilenameChars == UnicodeAlnum \cup {".", "_", "-"}

PngNamed(name) == IF EndsWith(name, DotPng) THEN name ELSE name \o DotPng

\* C10 as stated: a supplied filename is rejected when it holds a
\* character outside [A-Za-z0-9._-]; an accepted one is returned with
\* ".png" appended unless it ends with it already.
C10_FilenameAsciiOnly ==
    Validated("filename") /\ ~IsNone(vin.v) =>
        /\ vout.ok => vout.val = Some(PngNamed(Get(vin.v)))
        /\ (\E i \in 1..Len(Get(vin.v)) : Get(vin.v)[i] \notin AsciiFilenameChars)
               => Rejected("filename")

\* C10 as amended: a supplied filename is rejected exactly when it holds a
\* character that is neither alphanumeric (str.isalnum, which holds of
\* non-ASCII letters and digits too) nor one of . _ - ; every other one is
\* returned with ".png" appended unless it ends with it already.
C10_FilenameAlnumOnly ==
    Validated("filename") /\ ~IsNone(vin.v) =>
        IF \A i \in 1..Len(Get(vin.v)) : Get(vin.v)[i] \in AlnumFilenameChars
        THEN vout.ok /\ vout.val = Some(PngNamed(Get(vin.v)))
        ELSE Rejected("filename")

\* A name with a non-ASCII letter has been accepted and given its suffix.
C10_Witness ==
    /\ Validated("filename")
    /\ vin.v = Some(<<EAcute, "a">>)
    /\ vout.ok
    /\ vout.val = Some(<<EAcute, "a", ".", "p", "n", "g">>)

\* C11: a supplied selector that is empty or all whitespace is accepted and
\* becomes None, for which no selector wait is performed; one that holds
\* any of < > " ' is rejected with a selector error; every other one is
\* accepted unchanged.
C11_SelectorValidation ==
    Validated("selector") /\ ~IsNone(vin.v) =>
        /\ (\E i \in 1..Len(Get(vin.v)) : Get(vin.v)[i] \in {"<", ">", "\"", "'"})
               => Rejected("selector")
        /\ (\A i \in 1..Len(Get(vin.v)) : Get(vin.v)[i] = " ")
               => vout.ok /\ IsNone(vout.val) /\ ~HasSelector(vout.val)
        /\ /\ \E i \in 1..Len(Get(vin.v)) : Get(vin.v)[i] # " "
           /\ \A i \in 1..Len(Get(vin.v)) : Get(vin.v)[i] \notin {"<", ">", "\"", "'"}
           => vout.ok /\ vout.val = vin.v /\ HasSelector(vout.val)

\* A selector of two spaces has been validated to None.
C11_Witness ==
    /\ Validated("selector")
    /\ vin.v = Some(<<" ", " ">>)
    /\ vout.ok /\ IsNone(vout.val)

\* C12: the report of a captures call is written once, after every request
\* of the batch has its result and the browser is closed; it has one section
\* per request, in input order, and each section's image reference is the
\* path the request's screenshot was written to, where a file is.
C12_ReportReferencesWrittenFiles ==
    op = "captures" /\ report.writes > 0 =>
        /\ report.writes = 1
        /\ browser = "closed"
        /\ results = batch
        /\ Len(report.sections) = Len(batch)
        /\ \A i \in 1..Len(report.sections) :
            /\ report.sections[i].obj = batch[i]
            /\ Some(report.sections[i].src) = heap[batch[i]].screenshot_path
            /\ \E f \in files : f.path = report.sections[i].src

\* The object the screenshot step in progress is for.
ShotObject == IF op = "captures" THEN Cur ELSE Only

\* A screenshot step for an object that has no filename.
SynthesisStep ==
    /\ pc \in {"cap_shot", "caps_shot"}
    /\ IsNone(heap[ShotObject].filename)

\* The objects, other than the one in progress, whose filename was
\* synthesized in the current clock second and whose screenshot was taken.
SameSecondPeers ==
    {o \in 1..Len(heap) :
        /\ o # ShotObject
        /\ heap[o].filename = Some(SynthName(clock))
        /\ ~IsNone(heap[o].screenshot_path)}

\* C13 as stated: a request without a filename whose screenshot is taken in
\* the clock second in which another request's filename was synthesized gets
\* that request's screenshot_path.
C13_SameSecondSamePath ==
    [][SynthesisStep /\ outcome' # "raised" =>
           \A o \in SameSecondPeers :
               heap'[ShotObject].screenshot_path = heap[o].screenshot_path]_vars

\* C13 as amended: the synthesized filename is made from the clock second
\* alone, so it is the filename of every other request synthesized in that
\* second; when the two screenshots go to the same directory the paths are
\* the same and the later write replaces the earlier file; in different
\* directories the files are distinct and both stay.
C13_SameSecondSameName ==
    [][SynthesisStep =>
           /\ heap'[ShotObject].filename = Some(SynthName(clock))
           /\ \A o \in SameSecondPeers :
               /\ heap'[ShotObject].filename = heap[o].filename
               /\ outcome' # "raised" =>
                     IF Get(heap[o].screenshot_path).dir = dir
                     THEN /\ heap'[ShotObject].screenshot_path
                                = heap[o].screenshot_path
                          /\ {f \in files' : f.path = Get(heap[o].screenshot_path)}
                                = {[path |-> Get(heap[o].screenshot_path),
                                    by |-> <<calls, ShotObject>>]}
                     ELSE /\ heap'[ShotObject].screenshot_path
                                # heap[o].screenshot_path
                          /\ {f \in files : f.path = Get(heap[o].screenshot_path)}
                                \subseteq files']_vars

\* Two requests of one batch, for two objects without filenames, have the
\* same screenshot_path, and the file there is the second request's.
C13_Witness ==
    /\ InCaptures /\ Len(results) = 2
    /\ results[1] # results[2]
    /\ heap[results[1]].filename = heap[results[2]].filename
    /\ Get(heap[results[1]].filename).kind = "ts"
    /\ heap[results[1]].screenshot_path = heap[results[2]].screenshot_path
    /\ {f.by : f \in {g \in files : Some(g.path) = heap[results[1]].screenshot_path}}
           = {<<calls, results[2]>>}

\* The steps that create a context.
ContextStep == pc \in {"cap_context", "caps_context", "login_launch"}

\* C14: a context is created seeded exactly when the session file exists at
\* that moment; when the file does not exist the step does not raise and
\* creates one unseeded context.
C14_SeededIffSessionExists ==
    [][ContextStep =>
           /\ \A c \in ctxOpen' \ ctxOpen : c.seeded = sessionFile.exists
           /\ ~sessionFile.exists =>
                  /\ outcome' # "raised"
                  /\ ctxMade' = ctxMade + 1
                  /\ \E c \in ctxOpen' \ ctxOpen : ~c.seeded]_vars

\* A capture goes on with an unseeded context, there being no session file.
C14_Witness ==
    /\ op = "capture" /\ pc = "cap_goto"
    /\ ~sessionFile.exists
    /\ \E c \in ctxOpen : ~c.seeded

LaunchSteps == {"cap_launch", "caps_launch", "login_launch"}

\* C15: an invocation of capture, captures or login starts with no browser
\* and launches one, once; a batch creates one context per request it gets
\* to, so N contexts when it returns, and capture and login create one.
C15_OneBrowserPerInvocation ==
    /\ launches <= 1
    /\ pc \in LaunchSteps => launches = 0 /\ browser = "none" /\ ctxMade = 0
    /\ op # "none" /\ pc \notin LaunchSteps \cup {"idle", "load"}
           /\ outcome # "invalid" => launches = 1
    /\ op = "captures" =>
           /\ ctxMade <= Len(batch)
           /\ ctxMade \in {idx, idx - 1}
           /\ outcome = "returned" => ctxMade = Len(batch)
    /\ op \in {"capture", "login"} =>
           /\ ctxMade <= 1
           /\ outcome = "returned" => ctxMade = 1

\* A batch of three has returned: one launch, three contexts.
C15_Witness ==
    /\ InCaptures /\ outcome = "returned"
    /\ Len(batch) = 3
    /\ launches = 1 /\ ctxMade = 3

\* C16: in a batch the only context and the only page open are those of the
\* request in progress; the next request's context is created with none
\* open; browser.close() is reached, and the browser closed, with none open.
C16_OneContextAtATime ==
    op = "captures" =>
        /\ Cardinality(ctxOpen) <= 1
        /\ Cardinality(pageOpen) <= 1
        /\ \A c \in ctxOpen : c.id = idx
        /\ pageOpen \subseteq {idx}
        /\ pc \in {"caps_context", "caps_close_browser"} =>
               ctxOpen = {} /\ pageOpen = {}
        /\ browser = "closed" => ctxOpen = {} /\ pageOpen = {}

\* The second request of a batch has its context, the only one open.
C16_Witness ==
    /\ op = "captures" /\ pc = "caps_goto" /\ idx = 2
    /\ ctxMade = 2
    /\ Cardinality(ctxOpen) = 1
    /\ pageOpen = {2}

RequestFields ==
    {"url", "wait_time", "selector", "fullpage", "filename", "viewport_size"}

\* C17: no step changes, in any object, a field other than screenshot_path.
C17_OnlyScreenshotPathChanges ==
    [][\A o \in 1..Len(heap) :
           o <= Len(heap') =>
               \A f \in RequestFields : heap'[o][f] = heap[o][f]]_vars

\* C18 as stated: the selector wait of a single capture never ends in a
\* timeout.
C18_SingleWaitNeverTimesOut ==
    op = "capture" => fault # "timeout"

\* C18 as amended: the selector wait of a single capture is bounded by the
\* library's default timeout; the capture gets to the sleep and the
\* screenshot only when the wait returned, and a timeout ends it with the
\* exception: nothing is written and no path is returned. The timeout of a
\* batch's wait is never what ends the batch, and login has none.
C18_SingleWaitTimeoutIsFatal ==
    /\ op = "capture" /\ pc \in {"cap_sleep", "cap_shot"} => fault = "none"
    /\ op = "capture" /\ fault = "timeout" =>
           /\ pc = "done" /\ outcome = "raised"
           /\ HasSelector(heap[Only].selector)
           /\ IsNone(retPath)
           /\ ~\E f \in files : f.by = <<calls, Only>>
    /\ op \in {"captures", "login"} => fault # "timeout"

\* A single capture has ended with the timeout of its selector wait.
C18_Witness ==
    /\ op = "capture" /\ pc = "done"
    /\ outcome = "raised" /\ fault = "timeout"

\* C19: a navigation or screenshot failure at request k of a batch ends the
\* call with the exception: no context was created for a request after k,
\* no report is written and nothing is returned; the results so far are
\* requests 1..k-1, each with its screenshot_path set and a file there.
C19_BatchFailureIsFatal ==
    op = "captures" /\ fault \in {"goto", "screenshot"} =>
        /\ pc = "done" /\ outcome = "raised"
        /\ ctxMade = idx
        /\ report = NoReport
        /\ IsNone(retPath)
        /\ results = SubSeq(batch, 1, idx - 1)
        /\ \A i \in 1..(idx - 1) :
            /\ ~IsNone(heap[batch[i]].screenshot_path)
            /\ \E f \in files :
                   Some(f.path) = heap[batch[i]].screenshot_path

\* The navigation of the second request of a batch of three has failed,
\* the first request's screenshot being on disk.
C19_Witness ==
    /\ op = "captures" /\ fault = "goto"
    /\ Len(batch) = 3 /\ idx = 2
    /\ Len(results) = 1
    /\ \E f \in files : f.by = <<calls, batch[1]>>

====
